---------------------------- MODULE Spec2Model ----------------------------
(***************************************************************************)
(* Model of the image-analysis adapter (services/geminiService.ts) and of  *)
(* the App component that drives it (structured variant).                  *)
(*                                                                         *)
(* JavaScript runs every handler to completion: an event handler, or the   *)
(* continuation of an await together with the promise reactions chained to *)
(* it, is one atomic action here.  The suspension points where other       *)
(* handlers can run are the FileReader read and the generateContent call.  *)
(*                                                                         *)
(* Strings are sequences of one-character strings, so that split, trim,    *)
(* includes and JSON.parse are computed character by character.            *)
(* previewUrl and isAnimating are display-only state that no handler reads *)
(* and are not part of the model.                                          *)
(***************************************************************************)
EXTENDS Integers, Sequences, FiniteSets, TLC

----------------------------------------------------------------------------
(* Bounds *)

\* number of distinct files the user can pick
MaxFiles == 2
\* number of clicks on the submit button in one behaviour
MaxSubmits == 2
\* length of what follows "data:" in a string the FileReader yields
MaxUriLen == 4

----------------------------------------------------------------------------
(* JavaScript values *)

JUndefined == [t |-> "undefined"]
JNull == [t |-> "null"]
JStr(s) == [t |-> "string", s |-> s]
JNum(n) == [t |-> "number", n |-> n]
JBool(b) == [t |-> "boolean", b |-> b]
JArr(items) == [t |-> "array", items |-> items]
JObj(keys, vals) == [t |-> "object", keys |-> keys, vals |-> vals]
\* an Error object: name is the constructor, message a JavaScript value
JErr(name, message) == [t |-> "error", name |-> name, message |-> message]
\* the ProgressEvent a FileReader passes to onerror: it has no message
JEvent == [t |-> "event"]

\* !v for the values of the model
Falsy(v) ==
    \/ v = JUndefined
    \/ v = JNull
    \/ v = JStr(<<>>)
    \/ v = JNum(0)
    \/ v = JBool(FALSE)

\* v.message: reading a property of null or undefined throws a TypeError
GetMessage(v) ==
    IF v = JUndefined \/ v = JNull
    THEN [threw |-> TRUE, v |-> v]
    ELSE [threw |-> FALSE,
          v |-> IF v.t = "error" THEN v.message ELSE JUndefined]

----------------------------------------------------------------------------
(* String constants of the source and of the engines *)

\* 'API key is not configured.'
MsgApiKey ==
    <<"A","P","I"," ","k","e","y"," ","i","s"," ","n","o","t"," ","c","o","n",
      "f","i","g","u","r","e","d",".">>
\* 'Failed to parse base64 string.'
MsgParseBase64 ==
    <<"F","a","i","l","e","d"," ","t","o"," ","p","a","r","s","e"," ","b","a",
      "s","e","6","4"," ","s","t","r","i","n","g",".">>
\* 'Failed to parse the response from the AI model. The format might be incorrect.'
MsgParseResponse ==
    <<"F","a","i","l","e","d"," ","t","o"," ","p","a","r","s","e"," ","t","h",
      "e"," ","r","e","s","p","o","n","s","e"," ","f","r","o","m"," ","t","h",
      "e"," ","A","I"," ","m","o","d","e","l","."," ","T","h","e"," ","f","o",
      "r","m","a","t"," ","m","i","g","h","t"," ","b","e"," ","i","n","c","o",
      "r","r","e","c","t",".">>
\* 'Failed to get a response from the AI model.'
MsgNoResponse ==
    <<"F","a","i","l","e","d"," ","t","o"," ","g","e","t"," ","a"," ","r","e",
      "s","p","o","n","s","e"," ","f","r","o","m"," ","t","h","e"," ","A","I",
      " ","m","o","d","e","l",".">>
\* 'Please upload an image first.'
MsgUploadFirst ==
    <<"P","l","e","a","s","e"," ","u","p","l","o","a","d"," ","a","n"," ","i",
      "m","a","g","e"," ","f","i","r","s","t",".">>
\* 'An error occurred: '
ErrorPrefix ==
    <<"A","n"," ","e","r","r","o","r"," ","o","c","c","u","r","r","e","d",":",
      " ">>
\* 'undefined'
StrUndefined ==
    <<"u","n","d","e","f","i","n","e","d">>
\* 'JSON'
StrJSON ==
    <<"J","S","O","N">>
\* 'data:'
StrData ==
    <<"d","a","t","a",":">>
\* 'null'
StrNull ==
    <<"n","u","l","l">>
\* 'true'
StrTrue ==
    <<"t","r","u","e">>
\* 'false'
StrFalse ==
    <<"f","a","l","s","e">>
\* 'patientName'
KeyPatientName ==
    <<"p","a","t","i","e","n","t","N","a","m","e">>
\* 'medicines'
KeyMedicines ==
    <<"m","e","d","i","c","i","n","e","s">>
\* 'otherInfo'
KeyOtherInfo ==
    <<"o","t","h","e","r","I","n","f","o">>
\* 'name'
KeyName ==
    <<"n","a","m","e">>
\* 'Unexpected end of JSON input'
V8SyntaxError ==
    <<"U","n","e","x","p","e","c","t","e","d"," ","e","n","d"," ","o","f"," ",
      "J","S","O","N"," ","i","n","p","u","t">>
\* 'JSON.parse: unexpected character at line 1 column 1 of the JSON data'
GeckoSyntaxError ==
    <<"J","S","O","N",".","p","a","r","s","e",":"," ","u","n","e","x","p","e",
      "c","t","e","d"," ","c","h","a","r","a","c","t","e","r"," ","a","t"," ",
      "l","i","n","e"," ","1"," ","c","o","l","u","m","n"," ","1"," ","o","f",
      " ","t","h","e"," ","J","S","O","N"," ","d","a","t","a">>
\* 'JSON Parse error: Unexpected EOF'
JSCSyntaxError ==
    <<"J","S","O","N"," ","P","a","r","s","e"," ","e","r","r","o","r",":"," ",
      "U","n","e","x","p","e","c","t","e","d"," ","E","O","F">>
\* 'Cannot read properties of undefined'
V8TypeError ==
    <<"C","a","n","n","o","t"," ","r","e","a","d"," ","p","r","o","p","e","r",
      "t","i","e","s"," ","o","f"," ","u","n","d","e","f","i","n","e","d">>
\* 'error.message is undefined'
GeckoTypeError ==
    <<"e","r","r","o","r",".","m","e","s","s","a","g","e"," ","i","s"," ","u",
      "n","d","e","f","i","n","e","d">>
\* 'undefined is not an object'
JSCTypeError ==
    <<"u","n","d","e","f","i","n","e","d"," ","i","s"," ","n","o","t"," ","a",
      "n"," ","o","b","j","e","c","t">>
\* 'fetch failed'
MsgFetchFailed ==
    <<"f","e","t","c","h"," ","f","a","i","l","e","d">>
\* 'Invalid JSON payload received.'
MsgInvalidPayload ==
    <<"I","n","v","a","l","i","d"," ","J","S","O","N"," ","p","a","y","l","o",
      "a","d"," ","r","e","c","e","i","v","e","d",".">>
\* '{"patientName":"","medicines":[],"otherInfo":"A"}'
BodyDescription ==
    <<"{","\"","p","a","t","i","e","n","t","N","a","m","e","\"",":","\"","\"",
      ",","\"","m","e","d","i","c","i","n","e","s","\"",":","[","]",",","\"",
      "o","t","h","e","r","I","n","f","o","\"",":","\"","A","\"","}">>
\* '{"patientName":"J","medicines":[{"name":"A","dosage":"5"}],"otherInfo":null}'
BodyPrescription ==
    <<"{","\"","p","a","t","i","e","n","t","N","a","m","e","\"",":","\"","J",
      "\"",",","\"","m","e","d","i","c","i","n","e","s","\"",":","[","{","\"",
      "n","a","m","e","\"",":","\"","A","\"",",","\"","d","o","s","a","g","e",
      "\"",":","\"","5","\"","}","]",",","\"","o","t","h","e","r","I","n","f",
      "o","\"",":","n","u","l","l","}">>
\* ' {"patientName":"J","medicines":[],"otherInfo":""}\n'
BodyPadded ==
    <<" ","{","\"","p","a","t","i","e","n","t","N","a","m","e","\"",":","\"",
      "J","\"",",","\"","m","e","d","i","c","i","n","e","s","\"",":","[","]",
      ",","\"","o","t","h","e","r","I","n","f","o","\"",":","\"","\"","}",
      "\n">>
\* '{"patientName":"J","medic'
BodyTruncated ==
    <<"{","\"","p","a","t","i","e","n","t","N","a","m","e","\"",":","\"","J",
      "\"",",","\"","m","e","d","i","c">>
\* 'null'
BodyNull ==
    <<"n","u","l","l">>
\* '[]'
BodyArray ==
    <<"[","]">>
\* '{"patientName":"J","otherInfo":""}'
BodyNoMedicines ==
    <<"{","\"","p","a","t","i","e","n","t","N","a","m","e","\"",":","\"","J",
      "\"",",","\"","o","t","h","e","r","I","n","f","o","\"",":","\"","\"",
      "}">>
\* '{"patientName":"J","medicines":[{"dosage":"5"}],"otherInfo":""}'
BodyNamelessMedicine ==
    <<"{","\"","p","a","t","i","e","n","t","N","a","m","e","\"",":","\"","J",
      "\"",",","\"","m","e","d","i","c","i","n","e","s","\"",":","[","{","\"",
      "d","o","s","a","g","e","\"",":","\"","5","\"","}","]",",","\"","o","t",
      "h","e","r","I","n","f","o","\"",":","\"","\"","}">>
\* 'Sorry'
BodyProse ==
    <<"S","o","r","r","y">>
\* '{"otherInfo":""} x'
BodyTrailing ==
    <<"{","\"","o","t","h","e","r","I","n","f","o","\"",":","\"","\"","}"," ",
      "x">>
\* ''
BodyEmpty ==
    <<>>
\* '{"patientName":"","medicines":[{"name":"A"},{"name":"B"}],"otherInfo":""}'
BodyTwoMedicines ==
    <<"{","\"","p","a","t","i","e","n","t","N","a","m","e","\"",":","\"","\"",
      ",","\"","m","e","d","i","c","i","n","e","s","\"",":","[","{","\"","n",
      "a","m","e","\"",":","\"","A","\"","}",",","{","\"","n","a","m","e",
      "\"",":","\"","B","\"","}","]",",","\"","o","t","h","e","r","I","n","f",
      "o","\"",":","\"","\"","}">>
\* '""'
BodyEmptyString ==
    <<"\"","\"">>
\* '0'
BodyZero ==
    <<"0">>
\* 'No detailed description was generated.'
MsgNoDescription ==
    <<"N","o"," ","d","e","t","a","i","l","e","d"," ","d","e","s","c","r","i",
      "p","t","i","o","n"," ","w","a","s"," ","g","e","n","e","r","a","t","e",
      "d",".">>
\* 'dosage'
KeyDosage ==
    <<"d","o","s","a","g","e">>
\* 'frequency'
KeyFrequency ==
    <<"f","r","e","q","u","e","n","c","y">>
\* 'quantity'
KeyQuantity ==
    <<"q","u","a","n","t","i","t","y">>
\* 'notes'
KeyNotes ==
    <<"n","o","t","e","s">>
\* 'length'
KeyLength ==
    <<"l","e","n","g","t","h">>

----------------------------------------------------------------------------
(* String operations *)

\* all sequences over S of length at most n
SeqsUpTo(S, n) == UNION {[1..k -> S] : k \in 0..n}

\* String.prototype.includes
Includes(s, sub) ==
    \E i \in 1..(Len(s) - Len(sub) + 1) : SubSeq(s, i, i + Len(sub) - 1) = sub

\* String.prototype.split with a one-character separator
RECURSIVE Split(_, _)
Split(s, c) ==
    IF \A i \in 1..Len(s) : s[i] # c
    THEN <<s>>
    ELSE LET i == CHOOSE k \in 1..Len(s) :
                      s[k] = c /\ \A j \in 1..(k - 1) : s[j] # c
         IN  <<SubSeq(s, 1, i - 1)>> \o Split(SubSeq(s, i + 1, Len(s)), c)

\* parts[k] with JavaScript's zero-based index; undefined past the end
At(parts, k) == IF k + 1 \in DOMAIN parts THEN JStr(parts[k + 1]) ELSE JUndefined

WhiteSpace == {" ", "\n"}

\* String.prototype.trim
RECURSIVE TrimStart(_)
TrimStart(s) ==
    IF s # <<>> /\ Head(s) \in WhiteSpace THEN TrimStart(Tail(s)) ELSE s
RECURSIVE TrimEnd(_)
TrimEnd(s) ==
    IF s # <<>> /\ s[Len(s)] \in WhiteSpace
    THEN TrimEnd(SubSeq(s, 1, Len(s) - 1)) ELSE s
Trim(s) == TrimEnd(TrimStart(s))

\* `${v}` for a message: undefined prints as the word undefined
TemplateString(v) == IF v.t = "string" THEN v.s ELSE StrUndefined

----------------------------------------------------------------------------
(* fileToBase64 *)

UriAlphabet == {":", ";", ",", "a"}

\* what readAsDataURL can put in reader.result: always a data: URL
ReaderResults == {StrData \o s : s \in SeqsUpTo(UriAlphabet, MaxUriLen)}

\* the two split chains of reader.onload; threw when split(':')[1] is
\* undefined, since the next .split is then a TypeError inside the handler
OnloadParse(result) ==
    LET head == At(Split(result, ","), 0)
        afterColon == At(Split(head.s, ":"), 1)
    IN  IF afterColon = JUndefined
        THEN [threw |-> TRUE, mimeType |-> JUndefined, data |-> JUndefined]
        ELSE [threw |-> FALSE,
              mimeType |-> At(Split(afterColon.s, ";"), 0),
              data |-> At(Split(result, ","), 1)]

MalformedPartsMimeOnly(mimeType, data) == Falsy(mimeType)
\* if (!mimeType || !data)
MalformedParts(mimeType, data) == Falsy(mimeType) \/ Falsy(data)

\* how the promise of fileToBase64 ends once onload has run:
\* "hung" (the handler threw, nothing settles it), "rejected" or "resolved"
OnloadSettle(result) ==
    LET p == OnloadParse(result)
    IN  IF p.threw THEN [state |-> "hung", v |-> JUndefined]
        ELSE IF MalformedParts(p.mimeType, p.data)
        THEN [state |-> "rejected", v |-> JErr("Error", JStr(MsgParseBase64))]
        ELSE [state |-> "resolved",
              v |-> [mimeType |-> p.mimeType, data |-> p.data]]

\* reader.onerror = (error) => reject(error)
OnerrorSettle == [state |-> "rejected", v |-> JEvent]

----------------------------------------------------------------------------
(* JSON.parse: null, true, false, non-negative integers, strings without   *)
(* escapes, arrays and objects, with white space between tokens            *)

Digits == <<"0", "1", "2", "3", "4", "5", "6", "7", "8", "9">>
IsDigit(c) == \E d \in 1..10 : Digits[d] = c
DigitValue(c) == (CHOOSE d \in 1..10 : Digits[d] = c) - 1

ParseFail == [ok |-> FALSE, v |-> JUndefined, pos |-> 0]
ParseOk(v, pos) == [ok |-> TRUE, v |-> v, pos |-> pos]

StartsAt(s, i, w) ==
    i + Len(w) - 1 <= Len(s) /\ SubSeq(s, i, i + Len(w) - 1) = w

RECURSIVE SkipWs(_, _)
SkipWs(s, i) ==
    IF i <= Len(s) /\ s[i] \in WhiteSpace THEN SkipWs(s, i + 1) ELSE i

\* s[i] is the opening quote
ParseString(s, i) ==
    IF \E j \in (i + 1)..Len(s) : s[j] = "\""
    THEN LET j == CHOOSE k \in (i + 1)..Len(s) :
                      s[k] = "\"" /\ \A m \in (i + 1)..(k - 1) : s[m] # "\""
         IN  ParseOk(JStr(SubSeq(s, i + 1, j - 1)), j + 1)
    ELSE ParseFail

RECURSIVE ParseNumber(_, _, _)
ParseNumber(s, i, acc) ==
    IF i <= Len(s) /\ IsDigit(s[i])
    THEN ParseNumber(s, i + 1, 10 * acc + DigitValue(s[i]))
    ELSE ParseOk(JNum(acc), i)

RECURSIVE ParseValue(_, _)
RECURSIVE ParseElements(_, _, _)
RECURSIVE ParseMembers(_, _, _, _)

ParseValue(s, i0) ==
    LET i == SkipWs(s, i0)
    IN  IF i > Len(s) THEN ParseFail
        ELSE IF StartsAt(s, i, StrNull) THEN ParseOk(JNull, i + 4)
        ELSE IF StartsAt(s, i, StrTrue) THEN ParseOk(JBool(TRUE), i + 4)
        ELSE IF StartsAt(s, i, StrFalse) THEN ParseOk(JBool(FALSE), i + 5)
        ELSE IF s[i] = "\"" THEN ParseString(s, i)
        ELSE IF IsDigit(s[i])
        THEN IF s[i] = "0" /\ i < Len(s) /\ IsDigit(s[i + 1])
             THEN ParseFail
             ELSE ParseNumber(s, i, 0)
        ELSE IF s[i] = "["
        THEN LET j == SkipWs(s, i + 1)
             IN  IF j <= Len(s) /\ s[j] = "]"
                 THEN ParseOk(JArr(<<>>), j + 1)
                 ELSE ParseElements(s, j, <<>>)
        ELSE IF s[i] = "{"
        THEN LET j == SkipWs(s, i + 1)
             IN  IF j <= Len(s) /\ s[j] = "}"
                 THEN ParseOk(JObj(<<>>, <<>>), j + 1)
                 ELSE ParseMembers(s, j, <<>>, <<>>)
        ELSE ParseFail

ParseElements(s, i, acc) ==
    LET e == ParseValue(s, i)
        j == SkipWs(s, e.pos)
    IN  IF ~e.ok \/ j > Len(s) THEN ParseFail
        ELSE IF s[j] = "," THEN ParseElements(s, j + 1, Append(acc, e.v))
        ELSE IF s[j] = "]" THEN ParseOk(JArr(Append(acc, e.v)), j + 1)
        ELSE ParseFail

ParseMembers(s, i, keys, vals) ==
    LET q == SkipWs(s, i)
    IN  IF q > Len(s) \/ s[q] # "\"" THEN ParseFail
        ELSE LET k == ParseString(s, q)
                 c == SkipWs(s, k.pos)
             IN  IF ~k.ok \/ c > Len(s) \/ s[c] # ":" THEN ParseFail
                 ELSE LET e == ParseValue(s, c + 1)
                          j == SkipWs(s, e.pos)
                      IN  IF ~e.ok \/ j > Len(s) THEN ParseFail
                          ELSE IF s[j] = ","
                          THEN ParseMembers(s, j + 1, Append(keys, k.v.s),
                                            Append(vals, e.v))
                          ELSE IF s[j] = "}"
                          THEN ParseOk(JObj(Append(keys, k.v.s),
                                            Append(vals, e.v)), j + 1)
                          ELSE ParseFail

\* obj[key]; the last of several equal keys wins, a missing key is undefined
Get(obj, key) ==
    IF obj.t = "object" /\ \E i \in DOMAIN obj.keys : obj.keys[i] = key
    THEN LET i == CHOOSE k \in DOMAIN obj.keys :
                      obj.keys[k] = key
                      /\ \A m \in DOMAIN obj.keys : obj.keys[m] = key => m <= k
         IN  obj.vals[i]
    ELSE JUndefined

----------------------------------------------------------------------------
(* The JavaScript engine the page runs in *)

Engines == {"V8", "SpiderMonkey", "JavaScriptCore"}

\* the message of the SyntaxError of JSON.parse is the engine's choice
SyntaxErrorMessage(e) ==
    CASE e = "V8" -> V8SyntaxError
      [] e = "SpiderMonkey" -> GeckoSyntaxError
      [] e = "JavaScriptCore" -> JSCSyntaxError

\* the message of the TypeError of a property read on undefined or null
TypeErrorMessage(e) ==
    CASE e = "V8" -> V8TypeError
      [] e = "SpiderMonkey" -> GeckoTypeError
      [] e = "JavaScriptCore" -> JSCTypeError

JSONParse(s, e) ==
    LET r == ParseValue(s, 1)
    IN  IF r.ok /\ SkipWs(s, r.pos) > Len(s)
        THEN [threw |-> FALSE, v |-> r.v]
        ELSE [threw |-> TRUE,
              v |-> JErr("SyntaxError", JStr(SyntaxErrorMessage(e)))]

----------------------------------------------------------------------------
(* State *)

VARIABLES
    apiKey,          \* process.env.API_KEY
    engine,          \* the JavaScript engine of the browser
    imageFile,       \* App state: the selected file, NoFile for null
    analysisResult,  \* App state: a JavaScript value, JNull at first
    isLoading,       \* App state
    error,           \* App state: a string
    requests,        \* the invocations of analyzeImage, oldest first
    submits          \* clicks on the submit button so far

vars == <<apiKey, engine, imageFile, analysisResult, isLoading, error,
          requests, submits>>

NoFile == 0
Files == 1..MaxFiles

\* values process.env.API_KEY can have: unset, empty, set
ApiKeys == {JUndefined, JStr(<<>>), JStr(<<"k">>)}

\* reply bodies the model can send in response.text
Bodies == {BodyDescription, BodyPrescription, BodyPadded, BodyTruncated,
           BodyNull, BodyArray, BodyNoMedicines, BodyNamelessMedicine,
           BodyProse, BodyTrailing, BodyEmpty, BodyTwoMedicines,
           BodyEmptyString, BodyZero}

\* response.text: a string, or undefined when the reply has no text part
ReplyTexts == {JStr(b) : b \in Bodies} \cup {JUndefined}

\* values generateContent can throw: errors with and without the word JSON
\* in the message, with an empty or missing message, a string, nothing
Thrown == {JErr("Error", JStr(MsgFetchFailed)),
           JErr("ApiError", JStr(MsgInvalidPayload)),
           JErr("Error", JStr(<<>>)),
           JErr("Error", JUndefined),
           JStr(MsgFetchFailed),
           JUndefined}

----------------------------------------------------------------------------
(* analyzeImage *)

KeyMissingNever(k) == FALSE
KeyMissingUnsetOnly(k) == k = JUndefined
\* if (!process.env.API_KEY)
KeyMissing(k) == Falsy(k)

Failed(v) == [ok |-> FALSE, v |-> v]
Returned(v) == [ok |-> TRUE, v |-> v]

CatchRethrowGeneric(err) == JErr("Error", JStr(MsgNoResponse))
\* the catch block: the error analyzeImage throws for a caught value
CatchRethrow(err) ==
    LET m == GetMessage(err)
    IN  IF m.threw \/ m.v.t # "string"
        THEN JErr("TypeError", JStr(TypeErrorMessage(engine)))
        ELSE IF Includes(m.v.s, StrJSON)
        THEN JErr("Error", JStr(MsgParseResponse))
        ELSE JErr("Error", JStr(MsgNoResponse))

\* the try block once generateContent has returned a response
TryReturn(text) ==
    IF text = JUndefined
    THEN Failed(CatchRethrow(JErr("TypeError", JStr(TypeErrorMessage(engine)))))
    ELSE LET p == JSONParse(Trim(text.s), engine)
         IN  IF p.threw THEN Failed(CatchRethrow(p.v)) ELSE Returned(p.v)

\* the try block once generateContent has thrown
TryThrow(thrown) == Failed(CatchRethrow(thrown))

----------------------------------------------------------------------------
(* App *)

UI == [imageFile |-> imageFile, analysisResult |-> analysisResult,
       isLoading |-> isLoading, error |-> error]

SetUI(u) ==
    /\ imageFile' = u.imageFile
    /\ analysisResult' = u.analysisResult
    /\ isLoading' = u.isLoading
    /\ error' = u.error

DisabledNoLoading == imageFile = NoFile
\* disabled={!imageFile || isLoading}
Disabled == imageFile = NoFile \/ isLoading

\* `An error occurred: ${err.message}`; err is never null or undefined here
ErrorText(err) == ErrorPrefix \o TemplateString(GetMessage(err).v)

\* handleSubmit up to the await
BeforeAwait(u) ==
    [u EXCEPT !.isLoading = TRUE, !.analysisResult = JNull, !.error = <<>>]

AfterAwaitNoFinally(u, outcome) ==
    IF outcome.ok
    THEN [u EXCEPT !.analysisResult = outcome.v]
    ELSE [u EXCEPT !.error = ErrorText(outcome.v)]
\* handleSubmit from the await on: try, catch, finally
AfterAwait(u, outcome) ==
    IF outcome.ok
    THEN [u EXCEPT !.analysisResult = outcome.v, !.isLoading = FALSE]
    ELSE [u EXCEPT !.error = ErrorText(outcome.v), !.isLoading = FALSE]

Pending == [state |-> "pending", v |-> JUndefined]

\* an invocation of analyzeImage suspended in fileToBase64
NewRequest(f) ==
    [file |-> f, pc |-> "reading", reads |-> 1, calls |-> 0,
     readerResult |-> JUndefined, encoded |-> Pending,
     reply |-> JUndefined, outcome |-> JUndefined]

\* an invocation that threw before its first await
RefusedRequest(f, outcome) ==
    [file |-> f, pc |-> "done", reads |-> 0, calls |-> 0,
     readerResult |-> JUndefined, encoded |-> Pending,
     reply |-> JUndefined, outcome |-> outcome]

\* settled invocations are kept until the next submission
Live(reqs) == SelectSeq(reqs, LAMBDA r : r.pc # "done")

Init ==
    /\ apiKey \in ApiKeys
    /\ engine \in Engines
    /\ imageFile = NoFile
    /\ analysisResult = JNull
    /\ isLoading = FALSE
    /\ error = <<>>
    /\ requests = <<>>
    /\ submits = 0

\* the user picks a file in the file input
handleFileChange(f) ==
    /\ f # imageFile
    /\ imageFile' = f
    /\ analysisResult' = JNull
    /\ error' = <<>>
    /\ UNCHANGED <<apiKey, engine, isLoading, requests, submits>>

\* onClick of the submit button, up to the first suspension of analyzeImage
handleSubmit ==
    /\ ~Disabled
    /\ submits < MaxSubmits
    /\ submits' = submits + 1
    /\ IF imageFile = NoFile
       THEN /\ error' = MsgUploadFirst
            /\ UNCHANGED <<imageFile, analysisResult, isLoading, requests>>
       ELSE IF KeyMissing(apiKey)
       THEN LET outcome == Failed(JErr("Error", JStr(MsgApiKey)))
            IN  /\ SetUI(AfterAwait(BeforeAwait(UI), outcome))
                /\ requests' = Append(Live(requests),
                                      RefusedRequest(imageFile, outcome))
       ELSE /\ SetUI(BeforeAwait(UI))
            /\ requests' = Append(Live(requests), NewRequest(imageFile))
    /\ UNCHANGED <<apiKey, engine>>

\* analyzeImage ends with outcome and handleSubmit resumes
Settle(i, req, outcome) ==
    /\ requests' = [requests EXCEPT
                      ![i] = [req EXCEPT !.pc = "done", !.outcome = outcome]]
    /\ SetUI(AfterAwait(UI, outcome))

\* reader.onload fires with result in reader.result
ReaderOnload(i, result) ==
    /\ requests[i].pc = "reading"
    /\ LET s == OnloadSettle(result)
           req == [requests[i] EXCEPT !.readerResult = JStr(result),
                                      !.encoded = s]
       IN  CASE s.state = "hung" ->
                  /\ requests' = [requests EXCEPT
                                    ![i] = [req EXCEPT !.pc = "hung"]]
                  /\ UNCHANGED <<imageFile, analysisResult, isLoading, error>>
             [] s.state = "rejected" -> Settle(i, req, Failed(s.v))
             [] s.state = "resolved" ->
                  /\ requests' = [requests EXCEPT
                                    ![i] = [req EXCEPT !.pc = "calling",
                                                       !.calls = @ + 1]]
                  /\ UNCHANGED <<imageFile, analysisResult, isLoading, error>>
    /\ UNCHANGED <<apiKey, engine, submits>>

\* reader.onerror fires
ReaderOnerror(i) ==
    /\ requests[i].pc = "reading"
    /\ Settle(i, [requests[i] EXCEPT !.encoded = OnerrorSettle],
              Failed(OnerrorSettle.v))
    /\ UNCHANGED <<apiKey, engine, submits>>

\* generateContent resolves with a response whose text is text
ModelReturns(i, text) ==
    /\ requests[i].pc = "calling"
    /\ Settle(i, [requests[i] EXCEPT !.reply = [kind |-> "text", v |-> text]],
              TryReturn(text))
    /\ UNCHANGED <<apiKey, engine, submits>>

\* generateContent rejects with thrown
ModelThrows(i, thrown) ==
    /\ requests[i].pc = "calling"
    /\ Settle(i, [requests[i] EXCEPT !.reply = [kind |-> "throw", v |-> thrown]],
              TryThrow(thrown))
    /\ UNCHANGED <<apiKey, engine, submits>>

Next ==
    \/ \E f \in Files : handleFileChange(f)
    \/ handleSubmit
    \/ \E i \in DOMAIN requests : \E result \in ReaderResults :
           ReaderOnload(i, result)
    \/ \E i \in DOMAIN requests : ReaderOnerror(i)
    \/ \E i \in DOMAIN requests : \E text \in ReplyTexts :
           ModelReturns(i, text)
    \/ \E i \in DOMAIN requests : \E thrown \in Thrown :
           ModelThrows(i, thrown)

Spec == Init /\ [][Next]_vars

----------------------------------------------------------------------------
(* ResultDisplay: what the result pane renders for the current App state *)

\* v.length: arrays and strings have one, an object only as its own key
LengthOf(v) ==
    IF v.t = "array" THEN JNum(Len(v.items))
    ELSE IF v.t = "string" THEN JNum(Len(v.s))
    ELSE Get(v, KeyLength)

\* MedicineInfo renders nothing for a falsy value
MedicineInfo(value) == IF Falsy(value) THEN JNull ELSE value

\* MedicineCard: the name and the details that are present
MedicineCard(medicine) ==
    [name |-> Get(medicine, KeyName),
     dosage |-> MedicineInfo(Get(medicine, KeyDosage)),
     frequency |-> MedicineInfo(Get(medicine, KeyFrequency)),
     quantity |-> MedicineInfo(Get(medicine, KeyQuantity)),
     notes |-> MedicineInfo(Get(medicine, KeyNotes))]

\* !patientName && (!medicines || medicines.length === 0)
IsImageDescription(result) ==
    /\ Falsy(Get(result, KeyPatientName))
    /\ \/ Falsy(Get(result, KeyMedicines))
       \/ LengthOf(Get(result, KeyMedicines)) = JNum(0)

\* medicines && medicines.length > 0
HasMedicines(medicines) ==
    /\ ~Falsy(medicines)
    /\ LengthOf(medicines).t = "number"
    /\ LengthOf(medicines).n > 0

\* the prescription branch; rendering throws when medicines has a positive
\* length but no map, or when a medicine is null
PrescriptionView(result) ==
    LET patientName == Get(result, KeyPatientName)
        medicines == Get(result, KeyMedicines)
        otherInfo == Get(result, KeyOtherInfo)
    IN  IF /\ HasMedicines(medicines)
           /\ \/ medicines.t # "array"
              \/ \E k \in DOMAIN medicines.items :
                     medicines.items[k] \in {JNull, JUndefined}
        THEN [view |-> "crash"]
        ELSE [view |-> "prescription",
              patient |-> IF Falsy(patientName) THEN <<>> ELSE <<patientName>>,
              cards |-> IF HasMedicines(medicines)
                        THEN [k \in DOMAIN medicines.items |->
                                  MedicineCard(medicines.items[k])]
                        ELSE <<>>,
              notes |-> IF Falsy(otherInfo) THEN <<>> ELSE <<otherInfo>>]

ResultDisplay ==
    IF isLoading THEN [view |-> "loading"]
    ELSE IF error # <<>> THEN [view |-> "error", text |-> error]
    ELSE IF ~Falsy(analysisResult)
    THEN IF IsImageDescription(analysisResult)
         THEN [view |-> "description",
               text |-> IF Falsy(Get(analysisResult, KeyOtherInfo))
                        THEN JStr(MsgNoDescription)
                        ELSE Get(analysisResult, KeyOtherInfo)]
         ELSE PrescriptionView(analysisResult)
    ELSE [view |-> "idle"]

----------------------------------------------------------------------------
(* Types *)

TypeOK ==
    /\ apiKey \in ApiKeys
    /\ engine \in Engines
    /\ imageFile \in Files \cup {NoFile}
    /\ isLoading \in BOOLEAN
    /\ submits \in 0..MaxSubmits
    /\ \A i \in DOMAIN requests :
           requests[i].pc \in {"reading", "hung", "calling", "done"}

----------------------------------------------------------------------------
(* Properties *)

\* process.env.API_KEY is unset or empty
NoCredential == apiKey = JUndefined \/ apiKey = JStr(<<>>)

ConfigurationError == JErr("Error", JStr(MsgApiKey))
MalformedEncodingError == JErr("Error", JStr(MsgParseBase64))
ResponseFormatError == JErr("Error", JStr(MsgParseResponse))
ModelCallError == JErr("Error", JStr(MsgNoResponse))

\* the invocation has ended after generateContent answered or threw
Replied(r) == r.pc = "done" /\ r.calls = 1

\* C1: while no credential is configured, every invocation of analyzeImage
\* has failed with the configuration error and has started neither the file
\* read (fileToBase64) nor the model request (generateContent).
C1_NoCredentialNoNetwork ==
    NoCredential =>
        \A i \in DOMAIN requests :
            /\ requests[i].pc = "done"
            /\ requests[i].outcome = Failed(ConfigurationError)
            /\ requests[i].reads = 0
            /\ requests[i].calls = 0

\* a submission was made without a credential and its error is on screen
C1_Witness ==
    /\ NoCredential
    /\ Len(requests) = 1
    /\ requests[1].outcome = Failed(ConfigurationError)
    /\ error = ErrorPrefix \o MsgApiKey

\* the text is a JSON document
ValidJSON(s) ==
    LET r == ParseValue(s, 1) IN r.ok /\ SkipWs(s, r.pos) > Len(s)

\* C2: when generateContent returns a reply body that is not valid JSON,
\* analyzeImage fails with the ResponseFormatError ("Failed to parse the
\* response ...") and not with the ModelCallError.
C2_InvalidJsonIsFormatError ==
    \A i \in DOMAIN requests :
        ( /\ Replied(requests[i])
          /\ requests[i].reply.kind = "text"
          /\ requests[i].reply.v # JUndefined
          /\ ~ValidJSON(requests[i].reply.v.s) )
        => /\ requests[i].outcome = Failed(ResponseFormatError)
           /\ requests[i].outcome # Failed(ModelCallError)

\* a truncated reply was received and reported as a format error
C2_Witness ==
    \E i \in DOMAIN requests :
        /\ Replied(requests[i])
        /\ requests[i].reply = [kind |-> "text", v |-> JStr(BodyTruncated)]
        /\ error = ErrorPrefix \o MsgParseResponse

\* C3: every value thrown by generateContent, whatever its message or shape,
\* is re-raised by analyzeImage as the ModelCallError with the fixed message
\* "Failed to get a response from the AI model.".
C3_ThrownIsModelCallError ==
    \A i \in DOMAIN requests :
        (Replied(requests[i]) /\ requests[i].reply.kind = "throw")
        => requests[i].outcome = Failed(ModelCallError)

\* value conforms to prescriptionSchema: an object with patientName,
\* medicines and otherInfo, medicines an array of objects with a name
ConformsToSchema(v) ==
    /\ v.t = "object"
    /\ Get(v, KeyPatientName) # JUndefined
    /\ Get(v, KeyOtherInfo) # JUndefined
    /\ Get(v, KeyMedicines).t = "array"
    /\ \A k \in DOMAIN Get(v, KeyMedicines).items :
           Get(Get(v, KeyMedicines).items[k], KeyName) # JUndefined

\* C4: every value analyzeImage returns conforms to the schema, and a reply
\* that is valid JSON but does not conform fails with the ResponseFormatError.
C4_ReturnedConformsToSchema ==
    \A i \in DOMAIN requests :
        /\ (requests[i].pc = "done" /\ requests[i].outcome.ok)
           => ConformsToSchema(requests[i].outcome.v)
        /\ ( /\ Replied(requests[i])
             /\ requests[i].reply.kind = "text"
             /\ requests[i].reply.v # JUndefined
             /\ ValidJSON(requests[i].reply.v.s)
             /\ ~ConformsToSchema(ParseValue(requests[i].reply.v.s, 1).v) )
           => requests[i].outcome = Failed(ResponseFormatError)

\* index of the first c in s, Len(s) + 1 when there is none
FirstIndex(s, c) ==
    IF \E i \in 1..Len(s) : s[i] = c
    THEN CHOOSE i \in 1..Len(s) : s[i] = c /\ \A j \in 1..(i - 1) : s[j] # c
    ELSE Len(s) + 1

\* the text before the first comma
UriHead(uri) == SubSeq(uri, 1, FirstIndex(uri, ",") - 1)

\* the media type: the text between ':' and ';' before the first comma
MediaTypeOf(uri) ==
    LET h == UriHead(uri)
        a == SubSeq(h, FirstIndex(h, ":") + 1, Len(h))
    IN  SubSeq(a, 1, FirstIndex(a, ";") - 1)

\* the payload: the text after the first comma
PayloadOf(uri) == SubSeq(uri, FirstIndex(uri, ",") + 1, Len(uri))

\* C5: for every data URI the reader yields, an empty media type or an empty
\* payload makes fileToBase64 reject with the MalformedEncodingError, and it
\* never resolves with an empty mimeType or empty data.
C5_EmptyPartRejects ==
    \A i \in DOMAIN requests :
        requests[i].readerResult # JUndefined =>
            /\ ( \/ MediaTypeOf(requests[i].readerResult.s) = <<>>
                 \/ PayloadOf(requests[i].readerResult.s) = <<>> )
               => /\ requests[i].encoded =
                        [state |-> "rejected", v |-> MalformedEncodingError]
                  /\ requests[i].pc = "done"
                  /\ requests[i].outcome = Failed(MalformedEncodingError)
            /\ requests[i].encoded.state = "resolved"
               => /\ requests[i].encoded.v.mimeType.t = "string"
                  /\ requests[i].encoded.v.mimeType.s # <<>>
                  /\ requests[i].encoded.v.data.t = "string"
                  /\ requests[i].encoded.v.data.s # <<>>

\* the reader yielded "data:a;," (no payload) and the read was rejected
C5_Witness ==
    \E i \in DOMAIN requests :
        /\ requests[i].readerResult = JStr(StrData \o <<"a", ";", ",">>)
        /\ requests[i].encoded.state = "rejected"
        /\ error = ErrorPrefix \o MsgParseBase64

\* C6: an invocation of analyzeImage issues at most one model request:
\* none while it reads the file, one while it awaits the model, and once it
\* has ended exactly one if the credential is present and the encoding
\* succeeded, none otherwise; a failed request is not repeated.
C6_AtMostOneModelRequest ==
    \A i \in DOMAIN requests :
        /\ requests[i].calls <= 1
        /\ requests[i].reads <= 1
        /\ requests[i].pc \in {"reading", "hung"} => requests[i].calls = 0
        /\ requests[i].pc = "calling" => requests[i].calls = 1
        /\ requests[i].pc = "done" =>
               (requests[i].calls = 1
                <=> (~NoCredential /\ requests[i].encoded.state = "resolved"))

\* a model request failed and the invocation ended with that one request
C6_Witness ==
    \E i \in DOMAIN requests :
        /\ Replied(requests[i])
        /\ requests[i].reply.kind = "throw"
        /\ ~requests[i].outcome.ok
        /\ requests[i].calls = 1

\* the invocations of analyzeImage that have not ended
InFlight == {i \in DOMAIN requests : requests[i].pc # "done"}

\* C7: at most one analyze request is in flight at any time, whatever the
\* order of file selections, submissions and completions.
C7_AtMostOneInFlight == Cardinality(InFlight) <= 1

\* a request is outstanding, a file is selected and the button is disabled
C7_Witness ==
    /\ Cardinality(InFlight) = 1
    /\ imageFile # NoFile
    /\ isLoading
    /\ submits < MaxSubmits

\* C8: at most one of isLoading, a non-empty error and a non-null
\* analysisResult holds.
C8_DisplayStatesExclusive ==
    /\ ~(isLoading /\ error # <<>>)
    /\ ~(isLoading /\ analysisResult # JNull)
    /\ ~(error # <<>> /\ analysisResult # JNull)

\* a result is on screen after a second submission
C8_Witness ==
    /\ analysisResult # JNull
    /\ ~isLoading
    /\ error = <<>>
    /\ submits >= 2

\* the fixed message of each error kind
FixedMessages ==
    {MsgApiKey, MsgParseBase64, MsgParseResponse, MsgNoResponse}

\* C9: on every failing path of analyzeImage the error that reaches the
\* caller carries one of the fixed messages, the error on screen is the
\* prefix followed by one of them, and no result is set.
C9_FixedErrorMessages ==
    /\ \A i \in DOMAIN requests :
           (requests[i].pc = "done" /\ ~requests[i].outcome.ok)
           => /\ GetMessage(requests[i].outcome.v).v \in
                     {JStr(m) : m \in FixedMessages}
              /\ (i = Len(requests) => analysisResult = JNull)
    /\ error # <<>> => error \in {ErrorPrefix \o m : m \in FixedMessages}

\* C10: when the UI leaves the loading state, a result or an error is set.
C10_LeavesLoadingWithOutcome ==
    [][(isLoading /\ ~isLoading') => (error' # <<>> \/ analysisResult' # JNull)]_vars

\* the result is a non-prescription record: patientName empty, null or
\* absent, and medicines empty, null or absent
NonPrescription(result) ==
    /\ Get(result, KeyPatientName) \in {JStr(<<>>), JNull, JUndefined}
    /\ Get(result, KeyMedicines) \in {JArr(<<>>), JNull, JUndefined}

\* the names of the medicines of the result, in the order received
MedicineNames(result) ==
    IF Get(result, KeyMedicines).t = "array"
    THEN [k \in DOMAIN Get(result, KeyMedicines).items |->
              Get(Get(result, KeyMedicines).items[k], KeyName)]
    ELSE <<>>

\* C11: a non-null result is shown in the "Image Description" branch, with
\* its otherInfo, exactly when its patientName is empty or null and its
\* medicines are empty or absent; every other non-null result is shown in
\* the prescription branch, with the patient block only for a non-empty
\* patientName and one card per medicine in the order received.
C11_BranchMatchesResult ==
    analysisResult # JNull =>
        IF NonPrescription(analysisResult)
        THEN /\ ResultDisplay.view = "description"
             /\ Get(analysisResult, KeyOtherInfo).t = "string"
                /\ Get(analysisResult, KeyOtherInfo).s # <<>>
                => ResultDisplay.text = Get(analysisResult, KeyOtherInfo)
        ELSE /\ ResultDisplay.view = "prescription"
             /\ ResultDisplay.patient =
                    IF Get(analysisResult, KeyPatientName) = JStr(<<>>)
                    THEN <<>>
                    ELSE <<Get(analysisResult, KeyPatientName)>>
             /\ Len(ResultDisplay.cards) = Len(MedicineNames(analysisResult))
             /\ \A k \in DOMAIN ResultDisplay.cards :
                    ResultDisplay.cards[k].name
                        = MedicineNames(analysisResult)[k]

\* C12: a result or an analysis error on screen was produced by a request
\* for the image file that is selected now; a request for a file selected
\* earlier does not put its result or error next to the new selection.
C12_DisplayedBelongsToSelectedFile ==
    (analysisResult # JNull \/ error # <<>>) =>
        \E i \in DOMAIN requests :
            /\ requests[i].pc = "done"
            /\ requests[i].file = imageFile
            /\ IF requests[i].outcome.ok
               THEN analysisResult = requests[i].outcome.v
               ELSE error = ErrorText(requests[i].outcome.v)

=============================================================================
